---- MODULE Spec2Model ----
(***************************************************************************)
(* Model of scripts/fetch-menus.ts: the menu scraper's date resolver, ISO  *)
(* week partitioner, aggregator and idempotent writer, and the sequential  *)
(* run of main() over the configured canteens.                             *)
(*                                                                         *)
(* Representation.  A JavaScript Date at UTC midnight is its day number    *)
(* (days since 1970-01-01).  An ISO date string "YYYY-MM-DD" is the tuple  *)
(* <<y, m, d>>; string comparison of two such strings is the lexicographic *)
(* comparison of the tuples (four-digit years).  A JavaScript object with  *)
(* string keys is the sequence of its <<key, value>> pairs in insertion    *)
(* order, which is the order JSON.stringify emits them in.                 *)
(***************************************************************************)
EXTENDS Integers, Sequences, FiniteSets, TLC

(***************************************************************************)
(* ECMAScript date arithmetic (Date.UTC, getUTCFullYear, getUTCMonth,      *)
(* getUTCDate, getUTCDay), on day numbers.                                 *)
(***************************************************************************)

\* ECMAScript DayFromYear(y): the day number of 1 January of year y.
DayFromYear(y) ==
    365 * (y - 1970) + ((y - 1969) \div 4) - ((y - 1901) \div 100)
        + ((y - 1601) \div 400)

\* ECMAScript InLeapYear.
IsLeapYear(y) == (y % 4 = 0) /\ ((y % 100 # 0) \/ (y % 400 = 0))

\* Days before the first of month index mi (0..11) within year y.
DaysBeforeMonth(y, mi) ==
    LET base == <<0, 31, 59, 90, 120, 151, 181, 212, 243, 273, 304, 334>>
    IN  base[mi + 1] + (IF mi >= 2 /\ IsLeapYear(y) THEN 1 ELSE 0)

\* Date.UTC(year, monthIndex, day) / 86400000: ECMAScript MakeDay.  The month
\* index and the day are NOT range-checked: month index -1 is December of the
\* previous year, day 31 of a 30-day month runs into the next month.
DateUTC(year, monthIndex, day) ==
    LET ym == year + (monthIndex \div 12)
        mn == monthIndex % 12
    IN  DayFromYear(ym) + DaysBeforeMonth(ym, mn) + day - 1

\* Date.prototype.getUTCFullYear: the largest y with DayFromYear(y) <= t.
\* 1970 + t \div 365 overshoots by at most one for the dates of this model
\* (0 <= t < 365 * 365).
GetUTCFullYear(t) ==
    LET y0 == 1970 + (t \div 365)
    IN  IF DayFromYear(y0) <= t THEN y0 ELSE y0 - 1

\* Date.prototype.getUTCMonth: the month index 0..11.
GetUTCMonth(t) ==
    LET y   == GetUTCFullYear(t)
        doy == t - DayFromYear(y)
    IN  CHOOSE mi \in 0..11 :
            /\ DaysBeforeMonth(y, mi) <= doy
            /\ (mi = 11 \/ doy < DaysBeforeMonth(y, mi + 1))

\* Date.prototype.getUTCDate: the day of the month 1..31.
GetUTCDate(t) ==
    LET y == GetUTCFullYear(t)
    IN  t - DayFromYear(y) - DaysBeforeMonth(y, GetUTCMonth(t)) + 1

\* Date.prototype.getUTCDay: 0 = Sunday .. 6 = Saturday (1970-01-01 was a
\* Thursday).
GetUTCDay(t) == (t + 4) % 7

\* formatIsoDate: date.toISOString().slice(0, 10), the string "YYYY-MM-DD".
formatIsoDate(t) == <<GetUTCFullYear(t), GetUTCMonth(t) + 1, GetUTCDate(t)>>

\* new Date(`${day.date}T00:00:00Z`): the Date of an ISO date string.
ParseIsoDate(s) == DateUTC(s[1], s[2] - 1, s[3])

\* JavaScript's a < b on two "YYYY-MM-DD" strings.
StrLess(a, b) ==
    \/ a[1] < b[1]
    \/ a[1] = b[1] /\ a[2] < b[2]
    \/ a[1] = b[1] /\ a[2] = b[2] /\ a[3] < b[3]

(***************************************************************************)
(* isoWeek                                                                 *)
(***************************************************************************)

\* Variant: Sunday kept as day 0 (getUTCDay's value) instead of 7.
isoWeekSundayZero(date) ==
    LET dayNum == GetUTCDay(date)
        temp   == date + 4 - dayNum
        startOfYear == DateUTC(GetUTCFullYear(temp), 0, 1)
    IN  [year |-> GetUTCFullYear(temp), week |-> ((temp - startOfYear) + 7) \div 7]

\* isoWeek(date): shift to the Thursday of the date's week, then count weeks
\* from 1 January of the Thursday's year.  Math.ceil((n + 1) / 7) for an
\* integer n >= 0 is (n + 7) \div 7.
isoWeek(date) ==
    LET dayNum == IF GetUTCDay(date) = 0 THEN 7 ELSE GetUTCDay(date)
        temp   == date + 4 - dayNum
        startOfYear == DateUTC(GetUTCFullYear(temp), 0, 1)
    IN  [year |-> GetUTCFullYear(temp), week |-> ((temp - startOfYear) + 7) \div 7]

\* weekKey(year, week): "YYYY-Www", week padded to two digits; the pair
\* compares as the string does.
weekKey(year, week) == <<year, week>>

(***************************************************************************)
(* JavaScript objects as insertion-ordered sequences of <<key, value>>.    *)
(***************************************************************************)

ObjKeys(o) == [i \in 1..Len(o) |-> o[i][1]]

ObjHas(o, k) == \E i \in 1..Len(o) : o[i][1] = k

ObjGet(o, k) == o[CHOOSE i \in 1..Len(o) : o[i][1] = k][2]

\* o[k] = v: an existing key keeps its place, a new key goes last.
ObjSet(o, k, v) ==
    IF ObjHas(o, k)
    THEN [i \in 1..Len(o) |-> IF o[i][1] = k THEN <<k, v>> ELSE o[i]]
    ELSE Append(o, <<k, v>>)

(***************************************************************************)
(* The configured sources.                                                 *)
(***************************************************************************)

\* CANTEENS: slug, display name and URL of each source, in configured order.
CANTEENS ==
    << [slug |-> "main",       name |-> "Mensa Ruhr-Universitaet Bochum", url |-> "url/ruhr-universitaet-bochum/"],
       [slug |-> "q-west",     name |-> "Q-West",                         url |-> "url/q-west/"],
       [slug |-> "rote-beete", name |-> "Rote Beete",                     url |-> "url/rote-bete/"] >>

\* The code-unit order of the configured slugs, as Array.prototype.sort()
\* without a comparator orders them.
SlugRank(slug) ==
    CASE slug = "main" -> 1
      [] slug = "q-west" -> 2
      [] slug = "rote-beete" -> 3

(***************************************************************************)
(* resolveDayDate and parseMenuPage                                        *)
(*                                                                         *)
(* A day label is [text, tok]: its cleaned text and the digits of its      *)
(* first /(\d{2})\.(\d{2})\./ match as <<DD, MM>>, or <<>> without a match.*)
(* A week-container is [anchor, labels, rows]: the heading's first         *)
(* DD.MM.YYYY date as <<t>> (<<>> when the heading has none), the .day     *)
(* nodes' labels and the .list-dish rows (each row stands for the          *)
(* categories parseDishRow extracts from it).  A nullable Date is <<>> for *)
(* null and <<t>> for a date.                                              *)
(***************************************************************************)

\* $(undefined).text() cleaned: the label read past the last .day node.
EmptyLabel == [text |-> "", tok |-> <<>>]

\* extractFirstDate(heading) ?? new Date(): `now` is the day number of the
\* current time.
StartDateOf(block, now) == IF block.anchor = <<>> THEN now ELSE block.anchor[1]

\* resolveDayDate(label, startDate, previous): [ok, date]; ok = FALSE is the
\* thrown "Unable to parse day label".
resolveDayDate(label, startDate, previous) ==
    IF label.tok = <<>>
    THEN [ok |-> FALSE, date |-> 0]
    ELSE LET day   == label.tok[1]
             month == label.tok[2]
             year  == IF previous # <<>> THEN GetUTCFullYear(previous[1])
                                         ELSE GetUTCFullYear(startDate)
             first == DateUTC(year, month - 1, day)
             candidate ==
                 IF previous # <<>> /\ first < previous[1]
                 THEN DateUTC(year + 1, month - 1, day)
                 ELSE first
         IN  IF previous = <<>> /\ GetUTCMonth(candidate) # GetUTCMonth(startDate)
             THEN [ok |-> TRUE,
                   date |-> DateUTC(GetUTCFullYear(startDate), month - 1, day)]
             ELSE [ok |-> TRUE, date |-> candidate]

\* The label the loop reads for row `index` (1-based): dayNodes[index] may be
\* undefined when there are more rows than labels.
LabelAt(block, index) ==
    IF index <= Len(block.labels) THEN block.labels[index] ELSE EmptyLabel

\* The loop bound of parseMenuPage's row loop: index < dishRows.length.
RowCount(block) == Len(block.rows)

\* The row loop of one week-container, from row `index` on: [ok, days].
RECURSIVE ParseRows(_, _, _, _, _)
ParseRows(block, startDate, index, previous, acc) ==
    IF index > RowCount(block)
    THEN [ok |-> TRUE, days |-> acc]
    ELSE LET label    == LabelAt(block, index)
             resolved == resolveDayDate(label, startDate, previous)
         IN  IF ~resolved.ok
             THEN [ok |-> FALSE, days |-> acc]
             ELSE ParseRows(block, startDate, index + 1, <<resolved.date>>,
                            Append(acc, [date |-> formatIsoDate(resolved.date),
                                         label |-> label,
                                         categories |-> block.rows[index]]))

\* blocks.each(...): [ok, days, warnings]; warnings counts the console.warn
\* calls made (one per container whose counts differ, before its row loop).
RECURSIVE ParseBlocks(_, _, _, _, _)
ParseBlocks(blocks, b, now, acc, warnings) ==
    IF b > Len(blocks)
    THEN [ok |-> TRUE, days |-> acc, warnings |-> warnings]
    ELSE LET block == blocks[b]
             w     == IF Len(block.labels) # Len(block.rows)
                      THEN warnings + 1 ELSE warnings
             r     == ParseRows(block, StartDateOf(block, now), 1, <<>>, acc)
         IN  IF ~r.ok
             THEN [ok |-> FALSE, days |-> r.days, warnings |-> w]
             ELSE ParseBlocks(blocks, b + 1, now, r.days, w)

\* parseMenuPage(html): [ok, days, legend, warnings]; ok = FALSE is a thrown
\* Error (no container, or an unparseable day label).
parseMenuPage(page, now) ==
    IF Len(page.blocks) = 0
    THEN [ok |-> FALSE, days |-> <<>>, legend |-> page.legend, warnings |-> 0]
    ELSE LET r == ParseBlocks(page.blocks, 1, now, <<>>, 0)
         IN  [ok |-> r.ok, days |-> r.days, legend |-> page.legend,
              warnings |-> r.warnings]

(***************************************************************************)
(* parseLegend and parseLegendEntries                                      *)
(*                                                                         *)
(* The legend part of a document is [heading, row, columns]: whether an h3 *)
(* starting with "erlaeuterungen" exists, whether a .row follows it, and   *)
(* the texts of the row's .col-sm-4 columns.  A column text is the         *)
(* sequence of the code/description pairs in it, each [kind, key, value]   *)
(* with the kind of code it is written as: "info" for "(AB) ...",          *)
(* "allergens" for "a1) ..." and "additives" for "12) ...".  A nullable    *)
(* Legend is <<>> for null and <<legend>> otherwise.                       *)
(***************************************************************************)

\* cleanText($(columns.get(i)).text()) for the 0-based index i: the empty
\* text when the row has no such column.
ColumnText(columns, i) == IF i + 1 <= Len(columns) THEN columns[i + 1] ELSE <<>>

\* parseLegendEntries(text, pattern): the matches of the kind's pattern, in
\* order, entries[key] = value (a repeated key keeps the later value).
RECURSIVE parseLegendEntries(_, _, _, _)
parseLegendEntries(text, kind, i, entries) ==
    IF i > Len(text) THEN entries
    ELSE parseLegendEntries(text, kind, i + 1,
            IF text[i].kind = kind
            THEN ObjSet(entries, text[i].key, text[i].value)
            ELSE entries)

\* parseLegend($): null without the heading, without a following row, or
\* with a row that has no column at all.
parseLegend(doc) ==
    IF ~doc.heading
    THEN <<>>
    ELSE IF ~doc.row
    THEN <<>>
    ELSE IF Len(doc.columns) = 0
    THEN <<>>
    ELSE << [info      |-> parseLegendEntries(ColumnText(doc.columns, 0), "info", 1, <<>>),
             allergens |-> parseLegendEntries(ColumnText(doc.columns, 1), "allergens", 1, <<>>),
             additives |-> parseLegendEntries(ColumnText(doc.columns, 2), "additives", 1, <<>>)] >>

(***************************************************************************)
(* groupByWeek and convertDaysToMap                                        *)
(***************************************************************************)

\* The loop of groupByWeek over days[i..]: byWeek is the Map, in insertion
\* order, from week key to partition.
RECURSIVE GroupDays(_, _, _)
GroupDays(days, i, byWeek) ==
    IF i > Len(days)
    THEN byWeek
    ELSE LET day  == days[i]
             w    == isoWeek(ParseIsoDate(day.date))
             key  == weekKey(w.year, w.week)
             had  == IF ObjHas(byWeek, key)
                     THEN ObjGet(byWeek, key)
                     ELSE [isoYear |-> w.year, isoWeek |-> w.week,
                           from |-> day.date, to |-> day.date, days |-> <<>>]
             part == [had EXCEPT
                        !.days = Append(@, day),
                        !.from = IF StrLess(day.date, @) THEN day.date ELSE @,
                        !.to   = IF StrLess(@, day.date) THEN day.date ELSE @]
         IN  GroupDays(days, i + 1, ObjSet(byWeek, key, part))

\* Insert day x into the sorted list s behind every day that does not follow
\* it (Array.prototype.sort is stable).
InsertDay(s, x) ==
    LET after == {i \in 1..Len(s) : StrLess(x.date, s[i].date)}
        k     == IF after = {} THEN Len(s) + 1
                 ELSE CHOOSE i \in after : \A j \in after : i <= j
    IN  SubSeq(s, 1, k - 1) \o <<x>> \o SubSeq(s, k, Len(s))

\* Variant: the partition's days left in input order.
SortDaysUnsorted(days) == days

\* partition.days.sort((a, b) => a.date.localeCompare(b.date)).
RECURSIVE SortDays(_)
SortDays(days) ==
    IF days = <<>> THEN <<>>
    ELSE InsertDay(SortDays(SubSeq(days, 1, Len(days) - 1)), days[Len(days)])

\* The comparator of groupByWeek's final sort: a sorts before b.
PartitionBefore(a, b) ==
    IF a.isoYear = b.isoYear THEN a.isoWeek < b.isoWeek ELSE a.isoYear < b.isoYear

InsertPartition(s, x) ==
    LET after == {i \in 1..Len(s) : PartitionBefore(x, s[i])}
        k     == IF after = {} THEN Len(s) + 1
                 ELSE CHOOSE i \in after : \A j \in after : i <= j
    IN  SubSeq(s, 1, k - 1) \o <<x>> \o SubSeq(s, k, Len(s))

\* Variant: the partitions left in Map insertion order.
SortPartitionsUnsorted(parts) == parts

\* Array.from(byWeek.values()).sort(...) by (isoYear, isoWeek).
RECURSIVE SortPartitions(_)
SortPartitions(parts) ==
    IF parts = <<>> THEN <<>>
    ELSE InsertPartition(SortPartitions(SubSeq(parts, 1, Len(parts) - 1)),
                         parts[Len(parts)])

\* groupByWeek(days): the partitions, each with its days sorted, sorted by week.
groupByWeek(days) ==
    LET byWeek == GroupDays(days, 1, <<>>)
        values == [i \in 1..Len(byWeek) |->
                      [byWeek[i][2] EXCEPT !.days = SortDays(@)]]
    IN  SortPartitions(values)

\* Variant of the loop below: an existing date keeps its first entry.
RECURSIVE ConvertDaysKeepFirst(_, _, _)
ConvertDaysKeepFirst(days, i, map) ==
    IF i > Len(days) THEN map
    ELSE ConvertDaysKeepFirst(days, i + 1,
            IF ObjHas(map, days[i].date) THEN map
            ELSE ObjSet(map, days[i].date,
                        [label |-> days[i].label, categories |-> days[i].categories]))

\* The loop of convertDaysToMap over days[i..]: map[day.date] = {label, categories}.
RECURSIVE ConvertDays(_, _, _)
ConvertDays(days, i, map) ==
    IF i > Len(days) THEN map
    ELSE ConvertDays(days, i + 1,
            ObjSet(map, days[i].date,
                   [label |-> days[i].label, categories |-> days[i].categories]))

\* Variant of convertDaysToMap: the first day-menu of a date wins.
convertDaysToMapKeepFirst(days) == ConvertDaysKeepFirst(days, 1, <<>>)

\* convertDaysToMap(days).
convertDaysToMap(days) == ConvertDays(days, 1, <<>>)

(***************************************************************************)
(* The aggregation of main() and buildDayGroupedWeek                       *)
(***************************************************************************)

\* The body of main's loop over one source's partitions: the week entry is
\* created on first sight, its range widened, the canteen's entry set.
MergePartition(aggregated, canteen, legend, partition, generatedAt) ==
    LET key   == weekKey(partition.isoYear, partition.isoWeek)
        agg   == IF ObjHas(aggregated, key) THEN aggregated
                 ELSE ObjSet(aggregated, key,
                        [week |-> [isoYear |-> partition.isoYear,
                                   isoWeek |-> partition.isoWeek,
                                   from |-> partition.from,
                                   to |-> partition.to],
                         generatedAt |-> generatedAt,
                         canteens |-> <<>>])
        entry == ObjGet(agg, key)
        from  == IF StrLess(entry.week.from, partition.from)
                 THEN entry.week.from ELSE partition.from
        to    == IF StrLess(partition.to, entry.week.to)
                 THEN entry.week.to ELSE partition.to
    IN  ObjSet(agg, key,
               [entry EXCEPT
                  !.week.from = from,
                  !.week.to = to,
                  !.canteens = ObjSet(@, canteen.slug,
                                  [name |-> canteen.name,
                                   sourceUrl |-> canteen.url,
                                   legend |-> legend,
                                   days |-> convertDaysToMap(partition.days)])])

\* for (const partition of partitions) { ... } from partition i on.
RECURSIVE MergePartitions(_, _, _, _, _, _)
MergePartitions(aggregated, canteen, legend, partitions, i, generatedAt) ==
    IF i > Len(partitions) THEN aggregated
    ELSE MergePartitions(
            MergePartition(aggregated, canteen, legend, partitions[i], generatedAt),
            canteen, legend, partitions, i + 1, generatedAt)

\* Array.prototype.sort() without a comparator, on the keys of an object
\* (pairwise distinct strings): key k stands behind the keys that precede it.

SlugBefore(a, b) == SlugRank(a) < SlugRank(b)

\* Week keys "YYYY-Www" compare as their <<year, week>> pairs.
WeekKeyBefore(a, b) == a[1] < b[1] \/ (a[1] = b[1] /\ a[2] < b[2])

\* Object.keys(dayAccumulator).sort(): date strings.
SortDateKeys(keys) ==
    [i \in 1..Len(keys) |->
        CHOOSE k \in {keys[j] : j \in 1..Len(keys)} :
            Cardinality({j \in 1..Len(keys) : StrLess(keys[j], k)}) = i - 1]

\* Object.keys(day.canteens).sort(): slugs.
SortSlugKeys(keys) ==
    [i \in 1..Len(keys) |->
        CHOOSE k \in {keys[j] : j \in 1..Len(keys)} :
            Cardinality({j \in 1..Len(keys) : SlugBefore(keys[j], k)}) = i - 1]

\* Array.from(aggregated.keys()).sort(): week keys.
SortWeekKeys(keys) ==
    [i \in 1..Len(keys) |->
        CHOOSE k \in {keys[j] : j \in 1..Len(keys)} :
            Cardinality({j \in 1..Len(keys) : WeekKeyBefore(keys[j], k)}) = i - 1]

\* The first loop of buildDayGroupedWeek: the canteens from i on, the days of
\* canteen i from j on, into dayAccumulator.
RECURSIVE AccumulateDays(_, _, _, _)
AccumulateDays(canteens, i, j, acc) ==
    IF i > Len(canteens) THEN acc
    ELSE LET slug    == canteens[i][1]
             canteen == canteens[i][2]
         IN  IF j > Len(canteen.days)
             THEN AccumulateDays(canteens, i + 1, 1, acc)
             ELSE LET date   == canteen.days[j][1]
                      day    == canteen.days[j][2]
                      bucket == IF ObjHas(acc, date) THEN ObjGet(acc, date)
                                ELSE [label |-> day.label, canteens |-> <<>>]
                      filled == [bucket EXCEPT
                                   !.canteens = ObjSet(@, slug,
                                       [name |-> canteen.name,
                                        sourceUrl |-> canteen.sourceUrl,
                                        legend |-> canteen.legend,
                                        categories |-> day.categories])]
                  IN  AccumulateDays(canteens, i, j + 1, ObjSet(acc, date, filled))

\* Variant: the accumulator emitted as it was filled, without the two sorts.
OrderDaysUnsorted(acc) == acc

\* The second loop of buildDayGroupedWeek: the dates in sorted order, each
\* with its canteens in sorted slug order.
OrderDays(acc) ==
    LET orderedDates == SortDateKeys(ObjKeys(acc))
    IN  [d \in 1..Len(orderedDates) |->
            LET day   == ObjGet(acc, orderedDates[d])
                slugs == SortSlugKeys(ObjKeys(day.canteens))
            IN  <<orderedDates[d],
                  [label |-> day.label,
                   canteens |-> [c \in 1..Len(slugs) |->
                                    <<slugs[c], ObjGet(day.canteens, slugs[c])>>]]>>]

\* buildDayGroupedWeek(source).
buildDayGroupedWeek(source) ==
    [week |-> source.week,
     generatedAt |-> source.generatedAt,
     days |-> OrderDays(AccumulateDays(source.canteens, 1, 1, <<>>))]

(***************************************************************************)
(* writeJsonFile                                                           *)
(*                                                                         *)
(* The file system is a function from the paths that exist to their text.  *)
(***************************************************************************)

\* The JSON text of the values the documents are made of.  A date and a
\* week key are written with two-digit months, days and weeks; generatedAt
\* (an instant <<day number, millisecond>>) in full; a day label by its
\* text; a row by the name of its categories; a legend by its name or null.
Pad2(n) == IF n < 10 THEN "0" \o ToString(n) ELSE ToString(n)

DateText(d) == "\"" \o ToString(d[1]) \o "-" \o Pad2(d[2]) \o "-" \o Pad2(d[3]) \o "\""

InstantText(t) == "\"" \o ToString(t[1]) \o "T" \o ToString(t[2]) \o "Z\""

LegendText(legend) == IF legend = "none" THEN "null" ELSE "{" \o legend \o "}"

WeekText(week) ==
    "{\"isoYear\":" \o ToString(week.isoYear) \o ",\"isoWeek\":" \o ToString(week.isoWeek)
        \o ",\"from\":" \o DateText(week.from) \o ",\"to\":" \o DateText(week.to) \o "}"

\* The members of an object, in its key order, from member i on; texts[i]
\* is the text of member i.
RECURSIVE MembersText(_, _, _)
MembersText(texts, i, sep) ==
    IF i > Len(texts) THEN ""
    ELSE (IF i > 1 THEN sep ELSE "") \o texts[i] \o MembersText(texts, i + 1, sep)

ObjectText(texts) == "{" \o MembersText(texts, 1, ",") \o "}"

\* One canteen of the week document: {name, sourceUrl, legend, days}.
CanteenText(canteen) ==
    "{\"name\":\"" \o canteen.name \o "\",\"sourceUrl\":\"" \o canteen.sourceUrl
        \o "\",\"legend\":" \o LegendText(canteen.legend) \o ",\"days\":"
        \o ObjectText([j \in 1..Len(canteen.days) |->
               DateText(canteen.days[j][1]) \o ":{\"label\":\""
                   \o canteen.days[j][2].label.text \o "\",\"categories\":["
                   \o canteen.days[j][2].categories \o "]}"])
        \o "}"

\* One date of the day document: {label, canteens}.
DayText(day) ==
    "{\"label\":\"" \o day.label.text \o "\",\"canteens\":"
        \o ObjectText([c \in 1..Len(day.canteens) |->
               "\"" \o day.canteens[c][1] \o "\":{\"name\":\"" \o day.canteens[c][2].name
                   \o "\",\"sourceUrl\":\"" \o day.canteens[c][2].sourceUrl
                   \o "\",\"legend\":" \o LegendText(day.canteens[c][2].legend)
                   \o ",\"categories\":[" \o day.canteens[c][2].categories \o "]}"])
        \o "}"

\* JSON.stringify(payload, null, 2) + "\n" of an OutputWeek (it has
\* `canteens`) or a DayGroupedWeek (it has `days`): the members in the order
\* the objects hold them.
JsonStringify(payload) ==
    "{\"week\":" \o WeekText(payload.week)
        \o ",\"generatedAt\":" \o InstantText(payload.generatedAt)
        \o (IF "canteens" \in DOMAIN payload
            THEN ",\"canteens\":"
                 \o ObjectText([c \in 1..Len(payload.canteens) |->
                        "\"" \o payload.canteens[c][1] \o "\":"
                            \o CanteenText(payload.canteens[c][2])])
            ELSE ",\"days\":"
                 \o ObjectText([d \in 1..Len(payload.days) |->
                        DateText(payload.days[d][1]) \o ":"
                            \o DayText(payload.days[d][2])]))
        \o "}\n"

\* Variant: the file is rewritten on every call.
NeedsWriteAlways(files, targetPath, json) == TRUE

\* !existsSync(targetPath) || readFileSync(targetPath, "utf8") !== json.
NeedsWrite(files, targetPath, json) ==
    targetPath \notin DOMAIN files \/ files[targetPath] # json

\* writeJsonFile(targetPath, payload): the file system after the call, and
\* whether writeFileSync was called.
writeJsonFile(files, targetPath, payload) ==
    LET json == JsonStringify(payload)
    IN  IF NeedsWrite(files, targetPath, json)
        THEN [files |-> [p \in DOMAIN files \cup {targetPath} |->
                            IF p = targetPath THEN json ELSE files[p]],
              wrote |-> TRUE]
        ELSE [files |-> files, wrote |-> FALSE]

\* join(outputDir, `${key}.json`) and join(outputDir, "by-day", `${key}.json`).
ByWeekPath(key) == <<"menus", key[1], key[2]>>
ByDayPath(key) == <<"by-day", key[1], key[2]>>

(***************************************************************************)
(* Inputs: the pages the sources may serve, and the instants of the clock. *)
(***************************************************************************)

MaxRuns == 2

Label(text, dd, mm) == [text |-> text, tok |-> <<dd, mm>>]

Oct20 == DateUTC(2025, 9, 20)
Oct27 == DateUTC(2025, 9, 27)
Dec30 == DateUTC(2024, 11, 30)
Jan05 == DateUTC(2026, 0, 5)

\* No .box-speiseplan .block-space at all.
PageNoContainer == [blocks |-> <<>>, legend |-> "none"]

PageWeek43 ==
    [blocks |-> << [anchor |-> <<Oct20>>,
                    labels |-> <<Label("Mo, 20.10.", 20, 10), Label("Di, 21.10.", 21, 10)>>,
                    rows |-> <<"rowA", "rowB">>] >>,
     legend |-> "legend"]

\* The same Monday under another label text, below a heading without a date
\* (the anchor is the current time), without a legend.
PageWeek43Alt ==
    [blocks |-> << [anchor |-> <<>>,
                    labels |-> <<Label("Montag 20.10.", 20, 10)>>,
                    rows |-> <<"rowC">>] >>,
     legend |-> "none"]

PageMoreRows ==
    [blocks |-> << [anchor |-> <<Oct20>>,
                    labels |-> <<Label("Mo, 20.10.", 20, 10)>>,
                    rows |-> <<"rowA", "rowB">>] >>,
     legend |-> "legend"]

\* A day label repeated within one container.
PageRepeat ==
    [blocks |-> << [anchor |-> <<Oct20>>,
                    labels |-> <<Label("Mo, 20.10.", 20, 10), Label("Mo, 20.10.", 20, 10)>>,
                    rows |-> <<"rowA", "rowB">>] >>,
     legend |-> "legend"]

\* Two week-containers, the later week first; the second has a day label
\* without a dish row.
PageTwoWeeks ==
    [blocks |-> << [anchor |-> <<Oct27>>,
                    labels |-> <<Label("Mo, 27.10.", 27, 10)>>,
                    rows |-> <<"rowA">>],
                   [anchor |-> <<Oct20>>,
                    labels |-> <<Label("Di, 21.10.", 21, 10), Label("Mi, 22.10.", 22, 10)>>,
                    rows |-> <<"rowB">>] >>,
     legend |-> "legend"]

\* A container without days and rows.
PageNoRows ==
    [blocks |-> << [anchor |-> <<Oct20>>, labels |-> <<>>, rows |-> <<>>] >>,
     legend |-> "none"]

PageSet ==
    { PageNoContainer, PageWeek43, PageWeek43Alt, PageMoreRows, PageRepeat,
      PageTwoWeeks, PageNoRows }

\* The pages served when the processing order varies.
OrderPageSet == { PageNoContainer, PageWeek43, PageWeek43Alt, PageTwoWeeks }

\* The instants new Date() may return, in order: <<day number, millisecond>>.
Instants == << <<Oct20, 0>>, <<Oct20, 1>>, <<Jan05, 0>> >>

\* The processing order of the configured list.
ConfiguredOrder == [i \in 1..Len(CANTEENS) |-> i]

(***************************************************************************)
(* The run of main()                                                       *)
(*                                                                         *)
(* pc is the position of the process: "idle" before a run, "fetching"      *)
(* while awaiting fetchHtml for source order[idx], "writeWeek" and         *)
(* "writeByDay" inside the write loop at sortedKeys[widx], "done" after a  *)
(* normal return and "failed" after process.exit(1).  merged, writes,      *)
(* filesAtStart and prevDone record the run's history: the slugs merged so *)
(* far, the writeFileSync calls made, the file system the run found, and   *)
(* whether the previous run returned normally.                             *)
(***************************************************************************)

VARIABLES pc, order, pages, clock, generatedAt, idx, parsed, partitions,
          aggregated, merged, sortedKeys, widx, weekPayload, byDayPayload,
          files, filesAtStart, writes, runs, prevDone, error

mainVars == <<pc, order, pages, clock, generatedAt, idx, parsed, partitions,
              aggregated, merged, sortedKeys, widx, weekPayload, byDayPayload,
              files, filesAtStart, writes, runs, prevDone, error>>

\* The variables of the harnesses further down, which apply one function of
\* the program to bounded inputs.
VARIABLES isoDate, isoRes,          \* isoWeek: the date, <<>> or <<result>>
          calls,                    \* writeJsonFile: the calls made so far
          gDays, gParts,            \* groupByWeek: the input, <<>> or <<result>>
          rStart, rPrev, rLabels, rDates, rThrown,
                                    \* the row loop of one week-container
          lDoc, lRes                \* parseLegend: the document, <<>> or <<result>>

isoVars == <<isoDate, isoRes>>
groupVars == <<gDays, gParts>>
resolveVars == <<rStart, rPrev, rLabels, rDates, rThrown>>
legendVars == <<lDoc, lRes>>
harnessVars == <<isoVars, calls, groupVars, resolveVars, legendVars>>

\* new Date(): the current instant; its day number anchors a dateless heading.
Now == Instants[clock]

InitMain(orders, served) ==
    /\ pc = "idle"
    /\ order \in orders
    /\ pages \in [1..Len(CANTEENS) -> served]
    /\ clock = 1
    /\ generatedAt = <<>>
    /\ idx = 1
    /\ parsed = <<>>
    /\ partitions = <<>>
    /\ aggregated = <<>>
    /\ merged = {}
    /\ sortedKeys = <<>>
    /\ widx = 1
    /\ weekPayload = <<>>
    /\ byDayPayload = <<>>
    /\ files = <<>>
    /\ filesAtStart = <<>>
    /\ writes = 0
    /\ runs = 0
    /\ prevDone = FALSE
    /\ error = ""

\* Time passes while the process is not running or awaits a response; the
\* synchronous write loop does not read the clock.
Tick ==
    /\ pc \in {"idle", "fetching", "done", "failed"}
    /\ clock < Len(Instants)
    /\ clock' = clock + 1
    /\ UNCHANGED <<harnessVars, pc, order, pages, generatedAt, idx, parsed, partitions,
                   aggregated, merged, sortedKeys, widx, weekPayload,
                   byDayPayload, files, filesAtStart, writes, runs, prevDone,
                   error>>

\* main() starts: generatedAt is read, the map is empty, the first fetch is
\* issued.
StartRun ==
    /\ pc \in {"idle", "done", "failed"}
    /\ runs < MaxRuns
    /\ pc' = "fetching"
    /\ runs' = runs + 1
    /\ prevDone' = (pc = "done")
    /\ generatedAt' = Now
    /\ idx' = 1
    /\ parsed' = <<>>
    /\ partitions' = <<>>
    /\ aggregated' = <<>>
    /\ merged' = {}
    /\ sortedKeys' = <<>>
    /\ widx' = 1
    /\ weekPayload' = <<>>
    /\ byDayPayload' = <<>>
    /\ filesAtStart' = files
    /\ writes' = 0
    /\ error' = ""
    /\ UNCHANGED <<harnessVars, order, pages, clock, files>>

\* fetchHtml throws (a 404, another non-ok status, or the timeout's abort:
\* main() treats them alike).  main() rejects, the error is logged and the
\* process exits with code 1.
FetchFail ==
    /\ pc = "fetching"
    /\ error' = "fetch"
    /\ pc' = "failed"
    /\ UNCHANGED <<harnessVars, order, pages, clock, generatedAt, idx, parsed, partitions,
                   aggregated, merged, sortedKeys, widx, weekPayload,
                   byDayPayload, files, filesAtStart, writes, runs, prevDone>>

\* fetchHtml returns the page and parseMenuPage throws.
ParseFail ==
    /\ pc = "fetching"
    /\ LET p == parseMenuPage(pages[order[idx]], Now[1])
       IN  /\ ~p.ok
           /\ parsed' = <<p>>
    /\ error' = "parse"
    /\ pc' = "failed"
    /\ UNCHANGED <<harnessVars, order, pages, clock, generatedAt, idx, partitions,
                   aggregated, merged, sortedKeys, widx, weekPayload,
                   byDayPayload, files, filesAtStart, writes, runs, prevDone>>

\* Variant: the loop over the sources is left after the first one.
LastSourceFirst(i) == i >= 1

\* The for-of loop over CANTEENS ends after its last element.
LastSource(i) == i >= Len(CANTEENS)

\* fetchHtml returns the page; it is parsed, partitioned and merged.  After
\* the last source the run returns (nothing collected) or enters the write
\* loop; otherwise the next fetch is issued.
MergeSource ==
    /\ pc = "fetching"
    /\ LET canteen == CANTEENS[order[idx]]
           p       == parseMenuPage(pages[order[idx]], Now[1])
           parts   == groupByWeek(p.days)
           agg     == MergePartitions(aggregated, canteen, p.legend, parts, 1,
                                      generatedAt)
       IN  /\ p.ok
           /\ parsed' = <<p>>
           /\ partitions' = parts
           /\ aggregated' = agg
           /\ merged' = merged \cup {canteen.slug}
           /\ IF ~LastSource(idx)
              THEN /\ idx' = idx + 1
                   /\ pc' = "fetching"
                   /\ UNCHANGED sortedKeys
              ELSE /\ idx' = idx
                   /\ IF Len(agg) = 0
                      THEN pc' = "done" /\ UNCHANGED sortedKeys
                      ELSE /\ pc' = "writeWeek"
                           /\ sortedKeys' = SortWeekKeys(ObjKeys(agg))
    /\ UNCHANGED <<harnessVars, order, pages, clock, generatedAt, widx, weekPayload,
                   byDayPayload, files, filesAtStart, writes, runs, prevDone,
                   error>>

\* writeJsonFile(join(outputDir, `${key}.json`), weekPayload).
WriteWeek ==
    /\ pc = "writeWeek"
    /\ LET key     == sortedKeys[widx]
           payload == ObjGet(aggregated, key)
           w       == writeJsonFile(files, ByWeekPath(key), payload)
       IN  /\ weekPayload' = <<payload>>
           /\ files' = w.files
           /\ writes' = writes + (IF w.wrote THEN 1 ELSE 0)
    /\ pc' = "writeByDay"
    /\ UNCHANGED <<harnessVars, order, pages, clock, generatedAt, idx, parsed, partitions,
                   aggregated, merged, sortedKeys, widx, byDayPayload,
                   filesAtStart, runs, prevDone, error>>

\* buildDayGroupedWeek(weekPayload) and its writeJsonFile; then the next key,
\* or the end of main().
WriteByDay ==
    /\ pc = "writeByDay"
    /\ LET key     == sortedKeys[widx]
           payload == buildDayGroupedWeek(weekPayload[1])
           w       == writeJsonFile(files, ByDayPath(key), payload)
       IN  /\ byDayPayload' = <<payload>>
           /\ files' = w.files
           /\ writes' = writes + (IF w.wrote THEN 1 ELSE 0)
    /\ IF widx < Len(sortedKeys)
       THEN widx' = widx + 1 /\ pc' = "writeWeek"
       ELSE widx' = widx /\ pc' = "done"
    /\ UNCHANGED <<harnessVars, order, pages, clock, generatedAt, idx, parsed, partitions,
                   aggregated, merged, sortedKeys, weekPayload, filesAtStart,
                   runs, prevDone, error>>


(***************************************************************************)
(* Harnesses that apply one function of the program to bounded inputs.     *)
(***************************************************************************)

mainRest == <<pc, order, pages, clock, generatedAt, idx, parsed, partitions,
              aggregated, merged, sortedKeys, widx, weekPayload, byDayPayload,
              filesAtStart, writes, runs, prevDone, error>>
vars == <<mainVars, isoVars, calls, groupVars, resolveVars, legendVars>>

\* The state of a harness that is not in use.
IsoOff == isoDate = 0 /\ isoRes = <<>>
WriteOff == calls = <<>>
GroupOff == gDays = <<>> /\ gParts = <<>>
ResolveOff ==
    rStart = 0 /\ rPrev = <<>> /\ rLabels = <<>> /\ rDates = <<>> /\ rThrown = FALSE
LegendOff ==
    lDoc = [heading |-> FALSE, row |-> FALSE, columns |-> <<>>] /\ lRes = <<>>

\* No run of main(): the process is never started.
MainOff ==
    /\ pc = "off"
    /\ order = ConfiguredOrder
    /\ pages = [i \in 1..Len(CANTEENS) |-> PageNoRows]
    /\ clock = 1
    /\ generatedAt = <<>>
    /\ idx = 1
    /\ parsed = <<>>
    /\ partitions = <<>>
    /\ aggregated = <<>>
    /\ merged = {}
    /\ sortedKeys = <<>>
    /\ widx = 1
    /\ weekPayload = <<>>
    /\ byDayPayload = <<>>
    /\ files = <<>>
    /\ filesAtStart = <<>>
    /\ writes = 0
    /\ runs = 0
    /\ prevDone = FALSE
    /\ error = ""

(* ------------------------------ isoWeek ------------------------------- *)

FirstYear == 2020
YearSpan == 8

IsoDates == DateUTC(FirstYear, 0, 1) .. (DateUTC(FirstYear + YearSpan, 0, 1) - 1)

InitIso ==
    /\ isoDate \in IsoDates
    /\ isoRes = <<>>
    /\ MainOff /\ WriteOff /\ GroupOff /\ ResolveOff /\ LegendOff

ComputeIsoWeek ==
    /\ isoRes = <<>>
    /\ isoRes' = <<isoWeek(isoDate)>>
    /\ UNCHANGED <<isoDate, mainVars, calls, groupVars, resolveVars, legendVars>>

(* --------------------------- writeJsonFile ---------------------------- *)

MaxCalls == 3

\* Documents to write: the week document of a run over PageWeek43 and
\* PageWeek43Alt at two instants, and the day document derived from it.
WeekDocAt(instant) ==
    LET a == MergePartitions(<<>>, CANTEENS[1], PageWeek43.legend,
                 groupByWeek(parseMenuPage(PageWeek43, instant[1]).days), 1, instant)
        b == MergePartitions(a, CANTEENS[2], PageWeek43Alt.legend,
                 groupByWeek(parseMenuPage(PageWeek43Alt, instant[1]).days), 1, instant)
    IN  b[1][2]

WritePayloads ==
    { WeekDocAt(Instants[1]), WeekDocAt(Instants[2]),
      buildDayGroupedWeek(WeekDocAt(Instants[1])) }

WritePaths == { ByWeekPath(<<2025, 43>>), ByDayPath(<<2025, 43>>) }

InitWrite ==
    /\ calls = <<>>
    /\ MainOff /\ IsoOff /\ GroupOff /\ ResolveOff /\ LegendOff

\* One call writeJsonFile(targetPath, payload), recorded with the file's text
\* before and after it (<<>> for a missing file).
CallWriteJsonFile ==
    /\ Len(calls) < MaxCalls
    /\ \E targetPath \in WritePaths, payload \in WritePayloads :
          LET w    == writeJsonFile(files, targetPath, payload)
              Text(fs) == IF targetPath \in DOMAIN fs THEN <<fs[targetPath]>> ELSE <<>>
          IN  /\ files' = w.files
              /\ calls' = Append(calls, [path |-> targetPath,
                                         payload |-> payload,
                                         wrote |-> w.wrote,
                                         before |-> Text(files),
                                         after |-> Text(w.files)])
    /\ UNCHANGED <<mainRest, isoVars, groupVars, resolveVars, legendVars>>

(* ----------------------------- groupByWeek ---------------------------- *)

MaxDays == 3

\* Dates around the turn of the year 2024/25: a Sunday in 2024-W52, a Monday
\* and a Thursday in 2025-W01, a Monday in 2025-W02, and a day a year later.
GroupDates ==
    { <<2024, 12, 29>>, <<2024, 12, 30>>, <<2025, 1, 2>>, <<2025, 1, 6>>,
      <<2025, 12, 29>> }

GroupRows == {"rowA", "rowB"}

InitGroup ==
    /\ gDays = <<>>
    /\ gParts = <<>>
    /\ MainOff /\ IsoOff /\ WriteOff /\ ResolveOff /\ LegendOff

\* The caller appends a day-menu to the list.
AddDay ==
    /\ gParts = <<>>
    /\ Len(gDays) < MaxDays
    /\ \E date \in GroupDates, row \in GroupRows :
          gDays' = Append(gDays, [date |-> date,
                                  label |-> Label("day", date[3], date[2]),
                                  categories |-> row])
    /\ UNCHANGED <<gParts, mainVars, isoVars, calls, resolveVars, legendVars>>

CallGroupByWeek ==
    /\ gParts = <<>>
    /\ gParts' = <<groupByWeek(gDays)>>
    /\ UNCHANGED <<gDays, mainVars, isoVars, calls, resolveVars, legendVars>>

(* --------------------- the row loop of parseMenuPage ------------------ *)

MaxRows == 3

\* Heading dates: mid-December 2024 and the last Monday of 2024.
ResolveAnchors == { DateUTC(2024, 11, 16), Dec30 }

\* Day labels as the pattern /(\d{2})\.(\d{2})\./ reads them; it takes any
\* two digits for the day and for the month.
ResolveLabels ==
    { Label("20.12.", 20, 12), Label("29.12.", 29, 12), Label("31.12.", 31, 12),
      Label("01.01.", 1, 1), Label("02.01.", 2, 1), Label("29.02.", 29, 2),
      Label("01.03.", 1, 3), Label("15.00.", 15, 0), EmptyLabel }

InitResolve ==
    /\ rStart \in ResolveAnchors
    /\ rPrev = <<>>
    /\ rLabels = <<>>
    /\ rDates = <<>>
    /\ rThrown = FALSE
    /\ MainOff /\ IsoOff /\ WriteOff /\ GroupOff /\ LegendOff

\* One iteration of the row loop: the next label is resolved against the
\* previously resolved date, which it then replaces.
ResolveRow ==
    /\ ~rThrown
    /\ Len(rLabels) < MaxRows
    /\ \E label \in ResolveLabels :
          LET r == resolveDayDate(label, rStart, rPrev)
          IN  /\ rLabels' = Append(rLabels, label)
              /\ IF r.ok
                 THEN /\ rDates' = Append(rDates, r.date)
                      /\ rPrev' = <<r.date>>
                      /\ UNCHANGED rThrown
                 ELSE /\ rThrown' = TRUE
                      /\ UNCHANGED <<rDates, rPrev>>
    /\ UNCHANGED <<rStart, mainVars, isoVars, calls, groupVars, legendVars>>

(* ----------------------------- parseLegend ---------------------------- *)

MaxColumns == 4

LegendEntry(kind, key, value) == [kind |-> kind, key |-> key, value |-> value]

\* Column texts: an empty column, the info codes, the allergen codes (one
\* code given twice), the additive codes.
LegendTexts ==
    { <<>>,
      << LegendEntry("info", "V", "vegetarisch"), LegendEntry("info", "VG", "vegan") >>,
      << LegendEntry("allergens", "a1", "Weizen"), LegendEntry("allergens", "a1", "Gluten") >>,
      << LegendEntry("additives", "1", "Farbstoff") >> }

\* The rows a document may hold: 0..MaxColumns columns.
LegendColumns ==
    UNION { [1..n -> LegendTexts] : n \in 0..MaxColumns }

InitLegend ==
    /\ lDoc \in [heading : BOOLEAN, row : BOOLEAN, columns : LegendColumns]
    /\ lRes = <<>>
    /\ MainOff /\ IsoOff /\ WriteOff /\ GroupOff /\ ResolveOff

CallParseLegend ==
    /\ lRes = <<>>
    /\ lRes' = <<parseLegend(lDoc)>>
    /\ UNCHANGED <<lDoc, mainVars, isoVars, calls, groupVars, resolveVars>>

(***************************************************************************)
(* Specifications                                                          *)
(***************************************************************************)

HarnessOff == IsoOff /\ WriteOff /\ GroupOff /\ ResolveOff /\ LegendOff

\* main() run (and run again) over the configured order.
Init == InitMain({ConfiguredOrder}, PageSet) /\ HarnessOff
Next ==
    \/ Tick
    \/ StartRun
    \/ FetchFail
    \/ ParseFail
    \/ MergeSource
    \/ WriteWeek
    \/ WriteByDay
Spec == Init /\ [][Next]_vars

\* main() with the sources processed in any order.
InitOrder == InitMain(Permutations(1..Len(CANTEENS)), OrderPageSet) /\ HarnessOff
SpecOrder == InitOrder /\ [][Next]_vars

SpecIso == InitIso /\ [][ComputeIsoWeek]_vars
SpecWrite == InitWrite /\ [][CallWriteJsonFile]_vars
NextGroup == AddDay \/ CallGroupByWeek
SpecGroup == InitGroup /\ [][NextGroup]_vars
SpecResolve == InitResolve /\ [][ResolveRow]_vars
SpecLegend == InitLegend /\ [][CallParseLegend]_vars

(***************************************************************************)
(* Properties                                                              *)
(***************************************************************************)

AllSlugs == {CANTEENS[i].slug : i \in 1..Len(CANTEENS)}

Range(seq) == {seq[i] : i \in 1..Len(seq)}

\* The position in `order` of the source parsed last in this run (0: none).
LastParsedIdx ==
    IF pc = "fetching" \/ (pc = "failed" /\ error = "fetch") THEN idx - 1 ELSE idx

\* The position in `order` of the source merged last in this run (0: none).
LastMergedIdx == IF pc \in {"fetching", "failed"} THEN idx - 1 ELSE idx

(* -------------------------------- C1 ---------------------------------- *)

\* C1: a run that fails in fetchHtml or parseMenuPage ends failed with the
\* file system exactly as it found it, and no write (nor the write loop) is
\* reached before every configured source has been merged.
C1_AllOrNothing ==
    /\ pc = "failed" => (files = filesAtStart /\ writes = 0)
    /\ ( \/ files # filesAtStart
         \/ writes > 0
         \/ weekPayload # <<>>
         \/ pc \in {"writeWeek", "writeByDay"} ) => merged = AllSlugs

\* A re-run whose last fetch fails after the earlier sources were merged and
\* while the files of the first run exist.
C1_Witness ==
    /\ pc = "failed"
    /\ error = "fetch"
    /\ idx = Len(CANTEENS)
    /\ Len(aggregated) > 0
    /\ filesAtStart # <<>>
    /\ files = filesAtStart

(* -------------------------------- C2 ---------------------------------- *)

\* C2: a complete run that follows a complete run over the same pages finds
\* every document byte-identical and writes no file.
C2_RerunWritesNothing ==
    (pc = "done" /\ prevDone) => (writes = 0 /\ files = filesAtStart)

(* -------------------------------- C3 ---------------------------------- *)

\* <<MM, DD>> of label a precedes that of label b.
LabelPrecedes(a, b) ==
    a.tok[2] < b.tok[2] \/ (a.tok[2] = b.tok[2] /\ a.tok[1] < b.tok[1])

ResolvedInOrder(labels, dates) ==
    \A i \in 1..(Len(dates) - 1) :
        /\ dates[i] <= dates[i + 1]
        /\ GetUTCFullYear(dates[i + 1]) - GetUTCFullYear(dates[i]) \in {0, 1}
        /\ GetUTCFullYear(dates[i + 1]) > GetUTCFullYear(dates[i])
              => LabelPrecedes(labels[i + 1], labels[i])

\* C3: the dates resolved for the day labels of one week-container, in
\* source order, never decrease, and the year grows by one exactly where the
\* labels step back over the turn of the year.
C3_ResolverMonotone == ResolvedInOrder(rLabels, rDates)

\* The days of month m (1..12), 29 for February.
DaysOfMonth(m) ==
    IF m = 12 THEN 31 ELSE DaysBeforeMonth(2024, m) - DaysBeforeMonth(2024, m - 1)

\* The label names a day of the calendar: month 01..12 and a day that month
\* has (29.02. included).
CalendarLabel(label) ==
    /\ label.tok # <<>>
    /\ label.tok[2] \in 1..12
    /\ label.tok[1] \in 1..DaysOfMonth(label.tok[2])

\* The same statement for containers whose labels all name calendar days.
ResolverMonotoneOnCalendarLabels ==
    (\A i \in 1..Len(rLabels) : CalendarLabel(rLabels[i]))
        => ResolvedInOrder(rLabels, rDates)

(* -------------------------------- C4 ---------------------------------- *)

MinLen(block) ==
    IF Len(block.labels) < Len(block.rows) THEN Len(block.labels) ELSE Len(block.rows)

\* <<label i, row i>> for the first min(#labels, #rows) of each container.
RECURSIVE AlignedPairs(_, _)
AlignedPairs(blocks, b) ==
    IF b > Len(blocks) THEN <<>>
    ELSE [i \in 1..MinLen(blocks[b]) |-> <<blocks[b].labels[i], blocks[b].rows[i]>>]
         \o AlignedPairs(blocks, b + 1)

\* C4: a page all of whose day labels carry a date, with a container whose
\* label count and row count differ, is parsed without a fatal error, with a
\* warning, into the day-menus pairing label i with row i up to the shorter
\* count.
C4_MismatchRecoverable ==
    (parsed # <<>> /\ LastParsedIdx >= 1) =>
        LET page == pages[order[LastParsedIdx]]
            p    == parsed[1]
        IN  ( /\ Len(page.blocks) > 0
              /\ \E b \in 1..Len(page.blocks) :
                    Len(page.blocks[b].labels) # Len(page.blocks[b].rows)
              /\ \A b \in 1..Len(page.blocks) :
                    \A i \in 1..Len(page.blocks[b].labels) :
                        page.blocks[b].labels[i].tok # <<>> )
            => /\ p.ok
               /\ p.warnings >= 1
               /\ [i \in 1..Len(p.days) |-> <<p.days[i].label, p.days[i].categories>>]
                     = AlignedPairs(page.blocks, 1)

(* -------------------------------- C5 ---------------------------------- *)

\* The map main() holds after the first k sources of `ord`, every page parsed
\* at day `now`.
RECURSIVE AggregateSources(_, _, _, _)
AggregateSources(ord, k, now, stamp) ==
    IF k = 0 THEN <<>>
    ELSE LET p == parseMenuPage(pages[ord[k]], now)
         IN  MergePartitions(AggregateSources(ord, k - 1, now, stamp),
                             CANTEENS[ord[k]], p.legend, groupByWeek(p.days), 1,
                             stamp)

\* C5: the files a first run leaves, whatever the order it processed the
\* sources in, are the two documents per week that the configured order
\* yields (the clock read the same throughout the run).
C5_OrderIndependent ==
    (pc = "done" /\ runs = 1 /\ writes > 0 /\ Now = generatedAt) =>
        LET ref == AggregateSources(ConfiguredOrder, Len(CANTEENS), Now[1],
                                    generatedAt)
        IN  /\ DOMAIN files = {ByWeekPath(ref[i][1]) : i \in 1..Len(ref)}
                              \cup {ByDayPath(ref[i][1]) : i \in 1..Len(ref)}
            /\ \A i \in 1..Len(ref) :
                  /\ files[ByWeekPath(ref[i][1])] = JsonStringify(ref[i][2])
                  /\ files[ByDayPath(ref[i][1])]
                        = JsonStringify(buildDayGroupedWeek(ref[i][2]))

(* -------------------------------- C6 ---------------------------------- *)

\* C6: the day document derived from a week document holds canteen s under
\* date d exactly if the week document holds date d under canteen s, with
\* that canteen's name, URL and legend and that day's categories, the same
\* week and generatedAt, its dates ascending and each date's slugs ascending.
C6_DayDocumentInverts ==
    (byDayPayload # <<>> /\ pc \in {"writeWeek", "done"}) =>
        LET w == weekPayload[1]
            d == byDayPayload[1]
            dates == Range(ObjKeys(d.days))
                     \cup UNION {Range(ObjKeys(w.canteens[c][2].days)) :
                                    c \in 1..Len(w.canteens)}
            InWeek(slug, date) ==
                ObjHas(w.canteens, slug) /\ ObjHas(ObjGet(w.canteens, slug).days, date)
            InDay(slug, date) ==
                ObjHas(d.days, date) /\ ObjHas(ObjGet(d.days, date).canteens, slug)
        IN  /\ d.week = w.week
            /\ d.generatedAt = w.generatedAt
            /\ \A slug \in AllSlugs, date \in dates :
                  /\ InWeek(slug, date) <=> InDay(slug, date)
                  /\ InDay(slug, date) =>
                        LET c == ObjGet(w.canteens, slug)
                        IN  ObjGet(ObjGet(d.days, date).canteens, slug)
                              = [name |-> c.name, sourceUrl |-> c.sourceUrl,
                                 legend |-> c.legend,
                                 categories |-> ObjGet(c.days, date).categories]
            /\ \A i, j \in 1..Len(d.days) :
                  i < j => StrLess(d.days[i][1], d.days[j][1])
            /\ \A k \in 1..Len(d.days) :
                  LET cs == d.days[k][2].canteens
                  IN  /\ Len(cs) > 0
                      /\ \A i, j \in 1..Len(cs) :
                            i < j => SlugRank(cs[i][1]) < SlugRank(cs[j][1])

\* Two sources each contribute the same single date, the third none: one
\* date entry with both slugs in alphabetical order.
C6_Witness ==
    /\ pc = "done"
    /\ byDayPayload # <<>>
    /\ Len(weekPayload[1].canteens) = 2
    /\ Len(byDayPayload[1].days) = 1
    /\ ObjKeys(byDayPayload[1].days[1][2].canteens) = <<"main", "q-west">>

(* -------------------------------- C7 ---------------------------------- *)

\* ISO 8601: the first Thursday of year y, and the Monday of its week.
FirstThursday(y) ==
    CHOOSE t \in DayFromYear(y)..(DayFromYear(y) + 6) : GetUTCDay(t) = 4

WeekOneMonday(y) == FirstThursday(y) - 3

\* The ISO week-numbering year and week of day t, from the definition.
IsoRef(t) ==
    LET c == GetUTCFullYear(t)
        y == CHOOSE yy \in (c - 1)..(c + 1) :
                 WeekOneMonday(yy) <= t /\ t < WeekOneMonday(yy + 1)
    IN  [year |-> y, week |-> ((t - WeekOneMonday(y)) \div 7) + 1]

\* C7: isoWeek returns the ISO 8601 week-numbering year and week of every
\* date; 2024-12-30 is (2025, 1) and 2023-01-01 is (2022, 52).
C7_IsoWeek ==
    isoRes # <<>> =>
        /\ isoRes[1] = IsoRef(isoDate)
        /\ isoDate = DateUTC(2024, 11, 30) => isoRes[1] = [year |-> 2025, week |-> 1]
        /\ isoDate = DateUTC(2023, 0, 1) => isoRes[1] = [year |-> 2022, week |-> 52]

\* A Sunday in early January that belongs to the previous ISO year.
C7_Witness ==
    /\ isoDate = DateUTC(2023, 0, 1)
    /\ isoRes = <<[year |-> 2022, week |-> 52]>>

(* -------------------------------- C8 ---------------------------------- *)

\* C8: a call of writeJsonFile writes exactly if the file is missing or its
\* text differs from the payload's; the file then holds that text; and a call
\* that repeats the previous call's path and payload writes nothing and
\* leaves the file as it was.
C8_WriteIdempotent ==
    \A i \in 1..Len(calls) :
        LET c    == calls[i]
            json == JsonStringify(c.payload)
        IN  /\ c.wrote <=> (c.before = <<>> \/ c.before[1] # json)
            /\ c.after = <<json>>
            /\ ~c.wrote => c.after = c.before
            /\ (i > 1 /\ calls[i - 1].path = c.path
                      /\ JsonStringify(calls[i - 1].payload) = json)
                  => (~c.wrote /\ c.after = c.before)

\* The same payload written twice in a row to the same path: the first call
\* wrote, the second did not.
C8_Witness ==
    /\ Len(calls) >= 2
    /\ calls[1].path = calls[2].path
    /\ JsonStringify(calls[1].payload) = JsonStringify(calls[2].payload)
    /\ calls[1].wrote
    /\ ~calls[2].wrote

(* -------------------------------- C9 ---------------------------------- *)

\* C9 as stated: the partitions of one source's day-menus hold pairwise
\* distinct dates, and the canteen's map has one key per day of the partition.
C9_DistinctDates ==
    LastMergedIdx >= 1 =>
        \A k \in 1..Len(partitions) :
            LET p   == partitions[k]
                key == weekKey(p.isoYear, p.isoWeek)
                map == ObjGet(ObjGet(aggregated, key).canteens,
                              CANTEENS[order[LastMergedIdx]].slug).days
            IN  /\ \A i, j \in 1..Len(p.days) :
                      i # j => p.days[i].date # p.days[j].date
                /\ Len(map) = Len(p.days)

\* C9 amended: a partition may repeat a date; the canteen's map then has one
\* key per distinct date of the partition, and holds for each date the label
\* and categories of the last day-menu of the partition with that date.
C9_LastDayPerDate ==
    LastMergedIdx >= 1 =>
        \A k \in 1..Len(partitions) :
            LET p   == partitions[k]
                key == weekKey(p.isoYear, p.isoWeek)
                map == ObjGet(ObjGet(aggregated, key).canteens,
                              CANTEENS[order[LastMergedIdx]].slug).days
                dates == {p.days[i].date : i \in 1..Len(p.days)}
            IN  /\ Range(ObjKeys(map)) = dates
                /\ Len(map) = Cardinality(dates)
                /\ \A i \in 1..Len(p.days) :
                      (\A j \in (i + 1)..Len(p.days) : p.days[j].date # p.days[i].date)
                         => ObjGet(map, p.days[i].date)
                               = [label |-> p.days[i].label,
                                  categories |-> p.days[i].categories]

\* A source whose page repeats a day label has been merged: two day-menus of
\* one date, one key, holding the second row.
C9_Witness ==
    /\ LastMergedIdx >= 1
    /\ Len(partitions) = 1
    /\ Len(partitions[1].days) = 2
    /\ partitions[1].days[1].date = partitions[1].days[2].date
    /\ partitions[1].days[1].categories # partitions[1].days[2].categories
    /\ LET map == ObjGet(ObjGet(aggregated, <<2025, 43>>).canteens,
                         CANTEENS[order[LastMergedIdx]].slug).days
       IN  Len(map) = 1 /\ map[1][2].categories = partitions[1].days[2].categories

(* -------------------------------- C10 --------------------------------- *)

\* C10: groupByWeek returns partitions with distinct keys in ascending
\* (isoYear, isoWeek) order; each holds exactly the input days of its ISO
\* week, ascending by date; from and to are the least and greatest date.
C10_GroupByWeek ==
    gParts # <<>> =>
        LET parts == gParts[1]
            KeyOf(p) == <<p.isoYear, p.isoWeek>>
            RefKey(day) == LET r == IsoRef(ParseIsoDate(day.date))
                           IN  <<r.year, r.week>>
            Count(seq, x) == Cardinality({i \in 1..Len(seq) : seq[i] = x})
        IN  /\ \A i, j \in 1..Len(parts) :
                  i < j => WeekKeyBefore(KeyOf(parts[i]), KeyOf(parts[j]))
            /\ \A k \in 1..Len(gDays) :
                  \E i \in 1..Len(parts) : KeyOf(parts[i]) = RefKey(gDays[k])
            /\ \A i \in 1..Len(parts) :
                  LET p == parts[i]
                  IN  /\ Len(p.days) > 0
                      /\ \A day \in Range(gDays) \cup Range(p.days) :
                            Count(p.days, day) =
                               IF RefKey(day) = KeyOf(p) THEN Count(gDays, day) ELSE 0
                      /\ \A a \in 1..(Len(p.days) - 1) :
                            ~StrLess(p.days[a + 1].date, p.days[a].date)
                      /\ \E a \in 1..Len(p.days) : p.days[a].date = p.from
                      /\ \E a \in 1..Len(p.days) : p.days[a].date = p.to
                      /\ \A a \in 1..Len(p.days) :
                            /\ ~StrLess(p.days[a].date, p.from)
                            /\ ~StrLess(p.to, p.days[a].date)

\* Three days given latest first, over the turn of the year: two partitions,
\* 2025-W01 from 2024-12-30 to 2025-01-02 and then 2025-W02.
C10_Witness ==
    /\ gParts # <<>>
    /\ Len(gDays) = 3
    /\ gDays[1].date = <<2025, 1, 6>>
    /\ gDays[2].date = <<2025, 1, 2>>
    /\ gDays[3].date = <<2024, 12, 30>>
    /\ Len(gParts[1]) = 2
    /\ gParts[1][1].isoYear = 2025 /\ gParts[1][1].isoWeek = 1
    /\ gParts[1][1].from = <<2024, 12, 30>> /\ gParts[1][1].to = <<2025, 1, 2>>
    /\ gParts[1][2].isoWeek = 2

(* -------------------------------- C11 --------------------------------- *)

\* C11: parseLegend returns null exactly if the heading is missing, no row
\* follows it, or the row has fewer than three columns; otherwise it returns
\* the Legend with the three mappings of the first three columns.
C11_LegendNullWithoutLayout ==
    lRes # <<>> =>
        LET res    == lRes[1]
            layout == lDoc.heading /\ lDoc.row /\ Len(lDoc.columns) >= 3
        IN  /\ res = <<>> <=> ~layout
            /\ layout =>
                  res = << [info      |-> parseLegendEntries(lDoc.columns[1], "info", 1, <<>>),
                            allergens |-> parseLegendEntries(lDoc.columns[2], "allergens", 1, <<>>),
                            additives |-> parseLegendEntries(lDoc.columns[3], "additives", 1, <<>>)] >>

\* What holds instead: null exactly if the heading is missing, no row
\* follows it, or the row has no column; a row of one or two columns gives
\* a Legend whose mappings for the missing columns are empty.
LegendNullWithoutColumns ==
    lRes # <<>> =>
        LET res == lRes[1]
        IN  /\ res = <<>> <=> ~(lDoc.heading /\ lDoc.row /\ Len(lDoc.columns) >= 1)
            /\ res # <<>> =>
                  /\ Len(lDoc.columns) < 2 => res[1].allergens = <<>>
                  /\ Len(lDoc.columns) < 3 => res[1].additives = <<>>

====
